---- MODULE Spec2Model ----
(***************************************************************************)
(* Model of scripts/read_data.py (translytics): the trip-update reader,    *)
(* the delay statistics, the ingestion writers, the update-time lookup and *)
(* the English-text selection.  Each function of the script is a small     *)
(* state machine over its own variables; a specification per function      *)
(* starts the function on a bounded input and runs it to its return.       *)
(***************************************************************************)
EXTENDS Integers, Sequences, FiniteSets, TLC

\* ------------------------------------------------------------------ bounds
\* longest delay list handed to get_stats (besides the scenario list)
MaxDelays == 3
\* most records in the file read_data reads
MaxTrips == 2
\* most stop-time-updates in a trip record
MaxStus == 2
\* most rows of one day in the update_time table
MaxRows == 2
\* longest translation list handed to get_english
MaxTranslations == 3
\* most RouteKeys in the route_stats handed to ingest_route_stats_by_route
MaxRouteKeys == 53
\* most stops in the stop_stats handed to ingest_stop_stats_by_stop
MaxFlatStops == 103
\* most stops in the stop_stats handed to ingest_stop_stats_by_time
MaxTimeStops == 32
\* most stops of it whose detail lookup returns no row
MaxEmpty == 2
\* most RouteKeys in the route_stats handed to ingest_route_stats_by_time
MaxRouteTimeKeys == 61

\* ------------------------------------------------------- program constants
\* read_data.py:15
HIGH_DELAY == 300

\* Python's None
None == "None"

\* read_data.py:150
RESULTS_DRAIN == 1000

\* read_data.py:269
STOP_DRAIN == 50

\* read_data.py:216
ROUTE_BATCH_SIZE == 30

\* read_data.py:305
BATCH_SIZE == 30

\* read_data.py:331
BATCH_RESULTS_DRAIN == 10

VARIABLES
    \* get_stats(delays)
    delays, stats, gs_pc,
    \* read_data(session, path): the decoded file, the index of the next
    \* record, the locals, and the position in the function
    data, pos, routes, stops, stop_updates, results, current_route, route_key,
    rd_pc,
    \* get_last_update_time(session): the update_time table (the rows of
    \* today's and of yesterday's partition, in clustering order), the
    \* query results, the loop index, the local update_time, the position
    today_rows, yesterday_rows, ut_results, ut_i, update_time, ut_pc,
    \* get_english(translations)
    translations, ge_result, ge_pc,
    \* ingest_route_stats_by_route(session, route_stats, update_time): the
    \* keys of route_stats in iteration order, the loop index, the list of
    \* handles, the position
    rr_keys, rr_i, rr_results, rr_pc,
    \* ingest_stop_stats_by_stop(session, stop_stats, update_time): the keys
    \* of stop_stats, the loop index, the list of handles, the number of
    \* writes dispatched and the number awaited so far, the position
    ss_keys, ss_i, ss_results, ss_dispatched, ss_awaited, ss_pc,
    \* ingest_stop_stats_by_time(session, stop_stats, stop_results,
    \* update_time): the keys of stop_stats, the loop index, the detail rows
    \* each lookup returned, the open batch and its count, the list of
    \* handles, the batches whose execution has completed, the position
    st_keys, st_i, st_rows, st_batch, st_count, st_results, st_executed, st_pc,
    \* ingest_route_stats_by_time(session, route_stats, route_results,
    \* update_time): the keys of route_stats, the loop index, the detail rows
    \* each lookup returned, the open batch and its count, the list of
    \* handles of the batches dispatched, the position
    rt_keys, rt_i, rt_rows, rt_batch, rt_count, rt_results, rt_pc

statsVars == <<delays, stats, gs_pc>>
readVars == <<data, pos, routes, stops, stop_updates, results, current_route,
              route_key, rd_pc>>
timeVars == <<today_rows, yesterday_rows, ut_results, ut_i, update_time, ut_pc>>
englishVars == <<translations, ge_result, ge_pc>>
routeFlatVars == <<rr_keys, rr_i, rr_results, rr_pc>>
stopFlatVars == <<ss_keys, ss_i, ss_results, ss_dispatched, ss_awaited, ss_pc>>
stopTimeVars == <<st_keys, st_i, st_rows, st_batch, st_count, st_results,
                  st_executed, st_pc>>
routeTimeVars == <<rt_keys, rt_i, rt_rows, rt_batch, rt_count, rt_results, rt_pc>>
writerVars == <<routeFlatVars, stopFlatVars, stopTimeVars, routeTimeVars>>
vars == <<statsVars, readVars, timeVars, englishVars, writerVars>>

\* ------------------------------------------------------------ arithmetic
RECURSIVE SumSeq(_)
SumSeq(s) == IF s = <<>> THEN 0 ELSE Head(s) + SumSeq(Tail(s))

\* insert x into the ascending sequence s
RECURSIVE Insert(_, _)
Insert(x, s) ==
    IF s = <<>> THEN <<x>>
    ELSE IF x <= Head(s) THEN <<x>> \o s
    ELSE <<Head(s)>> \o Insert(x, Tail(s))

\* sorted(data)
RECURSIVE Sorted(_)
Sorted(s) == IF s = <<>> THEN <<>> ELSE Insert(Head(s), Sorted(Tail(s)))

\* Python's round() of the rational num/den (den > 0): nearest integer,
\* an exact half goes to the even neighbour.
Round(num, den) ==
    LET q == num \div den
        r == num % den
    IN  IF 2 * r < den THEN q
        ELSE IF 2 * r > den THEN q + 1
        ELSE IF q % 2 = 0 THEN q ELSE q + 1

\* round(statistics.mean(delays)): the exact quotient sum/n, rounded
RoundedMean(ds) == Round(SumSeq(ds), Len(ds))

\* round(statistics.median(delays)): the middle element of the sorted
\* data, or the average of the two middle elements, rounded
RoundedMedian(ds) ==
    LET d == Sorted(ds)
        n == Len(d)
        i == n \div 2
    IN  IF n % 2 = 1 THEN Round(d[i + 1], 1)
        ELSE Round(d[i] + d[i + 1], 2)

\* sum(<condition> for delay in delays): one per element that satisfies it
RECURSIVE CountEarly(_)
CountEarly(ds) ==
    IF ds = <<>> THEN 0
    ELSE (IF Head(ds) <= -HIGH_DELAY THEN 1 ELSE 0) + CountEarly(Tail(ds))

RECURSIVE CountLate(_)
CountLate(ds) ==
    IF ds = <<>> THEN 0
    ELSE (IF Head(ds) >= HIGH_DELAY THEN 1 ELSE 0) + CountLate(Tail(ds))

\* mutant: the late threshold taken strictly
get_stats_StrictLate(ds) ==
    [mean |-> RoundedMean(ds),
     median |-> RoundedMedian(ds),
     count |-> Len(ds),
     very_early |-> CountEarly(ds),
     very_late |-> CountLate(SelectSeq(ds, LAMBDA d : d # HIGH_DELAY))]

\* mutant: the mean is taken over the wrong divisor
get_stats_MeanOffByOne(ds) ==
    [mean |-> Round(SumSeq(ds), Len(ds) + 1),
     median |-> RoundedMedian(ds),
     count |-> Len(ds),
     very_early |-> CountEarly(ds),
     very_late |-> CountLate(ds)]

get_stats(ds) ==
    [mean |-> RoundedMean(ds),
     median |-> RoundedMedian(ds),
     count |-> Len(ds),
     very_early |-> CountEarly(ds),
     very_late |-> CountLate(ds)]

\* ------------------------------------------------- specification: get_stats
DelayValues == {-310, -300, -299, -5, 0, 1, 50, 299, 300, 301}

SeqsUpTo(S, n) == UNION {[1..k -> S] : k \in 0..n}

\* the scenario list of the statistics example
ScenarioDelays == <<-310, -5, 0, 301, 50>>

StatsInit ==
    /\ delays \in (SeqsUpTo(DelayValues, MaxDelays) \ {<<>>}) \cup {ScenarioDelays}
    /\ stats = None
    /\ gs_pc = "call"

StatsIdle ==
    /\ delays = <<>>
    /\ stats = None
    /\ gs_pc = "idle"

GetStats ==
    /\ gs_pc = "call"
    /\ stats' = get_stats(delays)
    /\ gs_pc' = "returned"
    /\ UNCHANGED delays
    /\ UNCHANGED <<readVars, timeVars, englishVars, writerVars>>

\* ------------------------------------------------------------- read_data
\* key in dict / KeyError on a missing key
HasKey(r, k) == k \in DOMAIN r

\* the value a function returns when it raised KeyError instead
KeyError == <<"KeyError">>

\* None as returned where a tuple is expected
NoInfo == <<>>

\* mutant: a record without routeId is given an empty route id
get_trip_info_DefaultRoute(trip_data) ==
    IF ~HasKey(trip_data, "id") THEN KeyError
    ELSE IF ~HasKey(trip_data, "tripUpdate") THEN KeyError
    ELSE LET trip_update == trip_data.tripUpdate IN
    IF ~HasKey(trip_update, "trip") THEN KeyError
    ELSE LET trip == trip_update.trip IN
    IF ~HasKey(trip, "startDate") THEN KeyError
    ELSE IF ~HasKey(trip, "scheduleRelationship") THEN KeyError
    ELSE IF ~HasKey(trip, "directionId") THEN KeyError
    ELSE IF ~HasKey(trip_update, "vehicle") THEN KeyError
    ELSE IF ~HasKey(trip_update.vehicle, "label") THEN KeyError
    ELSE IF ~HasKey(trip_update, "stopTimeUpdate") THEN KeyError
    ELSE <<<<(IF HasKey(trip, "routeId") THEN trip.routeId ELSE ""),
             trip.directionId>>,
           trip_update.stopTimeUpdate,
           trip_data.id,
           trip_update.vehicle.label>>

\* get_trip_info(trip_data): <<route_key, stop_time_updates, trip_id,
\* vehicle>>, or KeyError at the first key that is missing
get_trip_info(trip_data) ==
    IF ~HasKey(trip_data, "id") THEN KeyError
    ELSE IF ~HasKey(trip_data, "tripUpdate") THEN KeyError
    ELSE LET trip_update == trip_data.tripUpdate IN
    IF ~HasKey(trip_update, "trip") THEN KeyError
    ELSE LET trip == trip_update.trip IN
    IF ~HasKey(trip, "startDate") THEN KeyError
    ELSE IF ~HasKey(trip, "scheduleRelationship") THEN KeyError
    ELSE IF ~HasKey(trip, "routeId") THEN KeyError
    ELSE IF ~HasKey(trip, "directionId") THEN KeyError
    ELSE IF ~HasKey(trip_update, "vehicle") THEN KeyError
    ELSE IF ~HasKey(trip_update.vehicle, "label") THEN KeyError
    ELSE IF ~HasKey(trip_update, "stopTimeUpdate") THEN KeyError
    ELSE <<<<trip.routeId, trip.directionId>>,
           trip_update.stopTimeUpdate,
           trip_data.id,
           trip_update.vehicle.label>>

\* get_stop_info(stop): <<stop_id, arrival_delay, arrival_time>>, or None
\* when a key is missing.  arrival_time stands for the converted timestamp.
get_stop_info(stop) ==
    IF ~HasKey(stop, "stopSequence") THEN NoInfo
    ELSE IF ~HasKey(stop, "arrival") THEN NoInfo
    ELSE IF ~HasKey(stop.arrival, "delay") THEN NoInfo
    ELSE IF ~HasKey(stop.arrival, "time") THEN NoInfo
    ELSE IF ~HasKey(stop, "departure") THEN NoInfo
    ELSE IF ~HasKey(stop.departure, "delay") THEN NoInfo
    ELSE IF ~HasKey(stop, "stopId") THEN NoInfo
    ELSE <<stop.stopId, stop.arrival.delay, stop.arrival.time>>

\* mutant: the last stop-time-update is taken as the next stop
get_next_stop_info_Last(stop_updates_) ==
    IF Len(stop_updates_) = 0 THEN NoInfo
    ELSE get_stop_info(stop_updates_[Len(stop_updates_)])

get_next_stop_info(stop_updates_) ==
    IF Len(stop_updates_) = 0 THEN NoInfo
    ELSE get_stop_info(stop_updates_[1])

\* d[key].append(delay), or d[key] = [delay] on KeyError
AppendTo(d, key, delay) ==
    IF key \in DOMAIN d
    THEN [d EXCEPT ![key] = Append(@, delay)]
    ELSE [k \in DOMAIN d \cup {key} |-> IF k = key THEN <<delay>> ELSE d[k]]

\* the inner loop of read_data over stop_time_updates[from..]: st is
\* [stops, stop_updates]
RECURSIVE StopLoop(_, _, _, _)
StopLoop(st, stus, from, trip_id) ==
    IF from > Len(stus) THEN st
    ELSE LET info == get_stop_info(stus[from]) IN
         IF info = NoInfo THEN StopLoop(st, stus, from + 1, trip_id)
         ELSE StopLoop(
                [stops |-> AppendTo(st.stops, info[1], info[2]),
                 stop_updates |-> st.stop_updates \cup {<<info[1], info[3], trip_id>>}],
                stus, from + 1, trip_id)

\* one iteration of the loop of read_data on the record trip_data, after
\* the current_route check: st is [routes, stops, stop_updates, route_key]
LoopBody(st, trip_data) ==
    LET got == get_trip_info(trip_data) IN
    IF got = KeyError THEN st
    ELSE LET key == got[1]
             stus == got[2]
             info == get_next_stop_info(stus)
             st1 == [st EXCEPT !.route_key = key]
         IN  IF info = NoInfo THEN st1
             ELSE LET inner == StopLoop([stops |-> st1.stops,
                                         stop_updates |-> st1.stop_updates],
                                        stus, 1, got[3])
                  IN  [routes |-> AppendTo(st1.routes, key, info[2]),
                       stops |-> inner.stops,
                       stop_updates |-> inner.stop_updates,
                       route_key |-> key]

EmptyDict == <<>>

\* the records of the decoded file: stop-time-updates with and without an
\* arrival, trips with all keys, without routeId and without vehicle
FullStop(id, d) ==
    [stopSequence |-> 1, arrival |-> [delay |-> d, time |-> 1700000000],
     departure |-> [delay |-> d], stopId |-> id]

NoArrivalStop(id) ==
    [stopSequence |-> 1, departure |-> [delay |-> 0], stopId |-> id]

StopRecords == {FullStop("S1", -20), FullStop("S2", 40), NoArrivalStop("S1")}

StuLists == SeqsUpTo(StopRecords, MaxStus)

FullTrip(rid, dir, stus) ==
    [id |-> "T1",
     tripUpdate |-> [trip |-> [startDate |-> "20241126",
                               scheduleRelationship |-> "SCHEDULED",
                               routeId |-> rid, directionId |-> dir],
                     vehicle |-> [label |-> "V1"],
                     stopTimeUpdate |-> stus]]

NoRouteIdTrip(dir, stus) ==
    [id |-> "T2",
     tripUpdate |-> [trip |-> [startDate |-> "20241126",
                               scheduleRelationship |-> "SCHEDULED",
                               directionId |-> dir],
                     vehicle |-> [label |-> "V2"],
                     stopTimeUpdate |-> stus]]

NoVehicleTrip(rid, dir, stus) ==
    [id |-> "T3",
     tripUpdate |-> [trip |-> [startDate |-> "20241126",
                               scheduleRelationship |-> "SCHEDULED",
                               routeId |-> rid, directionId |-> dir],
                     stopTimeUpdate |-> stus]]

RouteKeys == {<<"R1", 0>>, <<"R1", 1>>, <<"R2", 0>>}

\* every list of stop-time-updates on one route key; one trip each on the
\* other direction and the other route; one record without routeId and one
\* without vehicle
TripRecords ==
    {FullTrip("R1", 0, stus) : stus \in StuLists}
    \cup {FullTrip("R1", 1, <<FullStop("S2", 40)>>),
          FullTrip("R2", 0, <<NoArrivalStop("S1"), FullStop("S1", -20)>>)}
    \cup {NoRouteIdTrip(0, <<FullStop("S1", -20), FullStop("S2", 40)>>)}
    \cup {NoVehicleTrip("R1", 0, <<FullStop("S1", -20)>>)}

ReadInit ==
    /\ \E n \in 0..MaxTrips : data \in [1..n -> TripRecords]
    /\ pos = 1
    /\ routes = EmptyDict
    /\ stops = EmptyDict
    /\ stop_updates = {}
    /\ results = <<>>
    /\ current_route = None
    /\ route_key = <<>>
    /\ rd_pc = "loop"

ReadIdle ==
    /\ data = <<>>
    /\ pos = 1
    /\ routes = EmptyDict
    /\ stops = EmptyDict
    /\ stop_updates = {}
    /\ results = <<>>
    /\ current_route = None
    /\ route_key = <<>>
    /\ rd_pc = "idle"

\* one iteration of `for trip_data_string in data`
ReadTrip ==
    /\ rd_pc = "loop"
    /\ pos <= Len(data)
    /\ LET routes0 == IF current_route # None
                      THEN [k \in DOMAIN routes \cup {route_key} |->
                              IF k = route_key THEN current_route ELSE routes[k]]
                      ELSE routes
           st == LoopBody([routes |-> routes0, stops |-> stops,
                           stop_updates |-> stop_updates,
                           route_key |-> route_key], data[pos])
       IN  /\ routes' = st.routes
           /\ stops' = st.stops
           /\ stop_updates' = st.stop_updates
           /\ route_key' = st.route_key
    /\ current_route' = None
    /\ results' = IF Len(results) > RESULTS_DRAIN THEN <<>> ELSE results
    /\ pos' = pos + 1
    /\ UNCHANGED <<data, rd_pc>>
    /\ UNCHANGED <<statsVars, timeVars, englishVars, writerVars>>

\* the loop is exhausted: return routes, stops
ReadReturn ==
    /\ rd_pc = "loop"
    /\ pos > Len(data)
    /\ rd_pc' = "returned"
    /\ UNCHANGED <<data, pos, routes, stops, stop_updates, results,
                   current_route, route_key>>
    /\ UNCHANGED <<statsVars, timeVars, englishVars, writerVars>>

\* -------------------------------------------------- get_last_update_time
TODAY == "today"
YESTERDAY == "yesterday"

\* SELECT * FROM update_time WHERE day = ? LIMIT 1: the first row of the
\* day's partition, if there is one
SelectLimit1(day) ==
    LET rows == IF day = TODAY THEN today_rows ELSE yesterday_rows
    IN  IF Len(rows) = 0 THEN <<>> ELSE <<rows[1]>>

\* ResultSet.one(): the first row, or None (here <<>>) when there is none;
\* a row is carried as the one-element tuple <<row>>
one(result_set) == IF Len(result_set) = 0 THEN NoInfo ELSE <<result_set[1]>>

\* the body of `for (success, result) in results` on one entry, given the
\* local update_time: the new update_time, or the AttributeError raised by
\* reading .day or .update_time of None
UpdateTimeStep(res, ut) ==
    IF ~res.success THEN [raised |-> FALSE, update_time |-> ut]
    ELSE LET result == one(res.result) IN
         IF ut = None
         THEN IF result = NoInfo
              THEN [raised |-> TRUE, update_time |-> ut]
              ELSE [raised |-> FALSE, update_time |-> result[1].update_time]
         ELSE IF result = NoInfo
              THEN [raised |-> TRUE, update_time |-> ut]
              ELSE IF result[1].day = TODAY
                   THEN [raised |-> FALSE, update_time |-> result[1].update_time]
                   ELSE [raised |-> FALSE, update_time |-> ut]

TodayRow(t) == [day |-> TODAY, update_time |-> t]
YesterdayRow(t) == [day |-> YESTERDAY, update_time |-> t]
TodayRowSet == {TodayRow(t) : t \in {"t1", "t2"}}
YesterdayRowSet == {YesterdayRow(t) : t \in {"y1", "y2"}}

TimeInit ==
    /\ today_rows \in SeqsUpTo(TodayRowSet, MaxRows)
    /\ yesterday_rows \in SeqsUpTo(YesterdayRowSet, MaxRows)
    /\ ut_results = <<>>
    /\ ut_i = 1
    /\ update_time = None
    /\ ut_pc = "call"

TimeIdle ==
    /\ today_rows = <<>>
    /\ yesterday_rows = <<>>
    /\ ut_results = <<>>
    /\ ut_i = 1
    /\ update_time = None
    /\ ut_pc = "idle"

\* execute_concurrent_with_args(session, statement, [(today,), (yesterday,)])
\* and update_time = None: one (success, result) per parameter, in order
TimeQuery ==
    /\ ut_pc = "call"
    /\ ut_results' = <<[success |-> TRUE, result |-> SelectLimit1(TODAY)],
                       [success |-> TRUE, result |-> SelectLimit1(YESTERDAY)]>>
    /\ update_time' = None
    /\ ut_i' = 1
    /\ ut_pc' = "loop"
    /\ UNCHANGED <<today_rows, yesterday_rows>>
    /\ UNCHANGED <<statsVars, readVars, englishVars, writerVars>>

\* one iteration of the loop over results
TimeIterate ==
    /\ ut_pc = "loop"
    /\ ut_i <= Len(ut_results)
    /\ LET r == UpdateTimeStep(ut_results[ut_i], update_time) IN
          /\ update_time' = r.update_time
          /\ ut_pc' = IF r.raised THEN "raised" ELSE "loop"
    /\ ut_i' = ut_i + 1
    /\ UNCHANGED <<today_rows, yesterday_rows, ut_results>>
    /\ UNCHANGED <<statsVars, readVars, englishVars, writerVars>>

\* return update_time
TimeReturn ==
    /\ ut_pc = "loop"
    /\ ut_i > Len(ut_results)
    /\ ut_pc' = "returned"
    /\ UNCHANGED <<today_rows, yesterday_rows, ut_results, ut_i, update_time>>
    /\ UNCHANGED <<statsVars, readVars, englishVars, writerVars>>

\* ----------------------------------------------------------- get_english
\* mutant: the text of the last 'en' entry
RECURSIVE get_english_Last(_)
get_english_Last(translations_) ==
    IF translations_ = <<>> THEN ""
    ELSE LET n == Len(translations_) IN
         IF translations_[n].language = "en" THEN translations_[n].text
         ELSE get_english_Last(SubSeq(translations_, 1, n - 1))

\* get_english(translations): the text of the first entry whose language
\* is 'en', or '' when the loop finds none
RECURSIVE get_english(_)
get_english(translations_) ==
    IF translations_ = <<>> THEN ""
    ELSE IF Head(translations_).language = "en" THEN Head(translations_).text
    ELSE get_english(Tail(translations_))

TranslationSet == [language : {"en", "fr"}, text : {"Detour", "Closed"}]

EnglishInit ==
    /\ translations \in SeqsUpTo(TranslationSet, MaxTranslations)
    /\ ge_result = None
    /\ ge_pc = "call"

EnglishIdle ==
    /\ translations = <<>>
    /\ ge_result = None
    /\ ge_pc = "idle"

GetEnglish ==
    /\ ge_pc = "call"
    /\ ge_result' = get_english(translations)
    /\ ge_pc' = "returned"
    /\ UNCHANGED translations
    /\ UNCHANGED <<statsVars, readVars, timeVars, writerVars>>

\* -------------------------------------------- ingest_route_stats_by_route
\* the INSERT INTO route_stat_by_route_test statement built for a RouteKey
RouteStatement(key) == [table |-> "route_stat_by_route_test", route_key |-> key]

\* mutant: the list of handles is restarted once it holds a batch's worth
DispatchRoute_Restart(results_, key) ==
    IF Len(results_) >= BATCH_SIZE THEN <<RouteStatement(key)>>
    ELSE Append(results_, RouteStatement(key))

\* results.append(session.execute_async(statement))
DispatchRoute(results_, key) == Append(results_, RouteStatement(key))

RouteFlatInit ==
    /\ \E n \in 0..MaxRouteKeys : rr_keys = [k \in 1..n |-> k]
    /\ rr_i = 1
    /\ rr_results = <<>>
    /\ rr_pc = "loop"

RouteFlatIdle ==
    /\ rr_keys = <<>>
    /\ rr_i = 1
    /\ rr_results = <<>>
    /\ rr_pc = "idle"

\* one iteration of `for route_key, stats in route_stats.items()`
RouteDispatch ==
    /\ rr_pc = "loop"
    /\ rr_i <= Len(rr_keys)
    /\ rr_results' = DispatchRoute(rr_results, rr_keys[rr_i])
    /\ rr_i' = rr_i + 1
    /\ UNCHANGED <<rr_keys, rr_pc>>
    /\ UNCHANGED <<statsVars, readVars, timeVars, englishVars, stopFlatVars,
                   stopTimeVars, routeTimeVars>>

\* return results: no handle has been waited on
RouteReturn ==
    /\ rr_pc = "loop"
    /\ rr_i > Len(rr_keys)
    /\ rr_pc' = "returned"
    /\ UNCHANGED <<rr_keys, rr_i, rr_results>>
    /\ UNCHANGED <<statsVars, readVars, timeVars, englishVars, stopFlatVars,
                   stopTimeVars, routeTimeVars>>

\* ---------------------------------------------- ingest_stop_stats_by_stop
\* the INSERT INTO stop_stat_by_stop_test statement built for a stop
StopStatement(stop_id) == [table |-> "stop_stat_by_stop_test", stop_id |-> stop_id]

\* mutant: the drain test is off by one
ShouldDrain_OffByOne(results_) == Len(results_) > STOP_DRAIN + 1

\* if len(results) > 50
ShouldDrain(results_) == Len(results_) > STOP_DRAIN

StopFlatInit ==
    /\ \E n \in 0..MaxFlatStops : ss_keys = [k \in 1..n |-> k]
    /\ ss_i = 1
    /\ ss_results = <<>>
    /\ ss_dispatched = 0
    /\ ss_awaited = 0
    /\ ss_pc = "loop"

StopFlatIdle ==
    /\ ss_keys = <<>>
    /\ ss_i = 1
    /\ ss_results = <<>>
    /\ ss_dispatched = 0
    /\ ss_awaited = 0
    /\ ss_pc = "idle"

\* results.append(session.execute_async(statement))
StopDispatch ==
    /\ ss_pc = "loop"
    /\ ss_i <= Len(ss_keys)
    /\ ss_results' = Append(ss_results, StopStatement(ss_keys[ss_i]))
    /\ ss_dispatched' = ss_dispatched + 1
    /\ ss_pc' = "check"
    /\ UNCHANGED <<ss_keys, ss_i, ss_awaited>>
    /\ UNCHANGED <<statsVars, readVars, timeVars, englishVars, routeFlatVars,
                   stopTimeVars, routeTimeVars>>

\* if len(results) > 50: block_for_results(results); results = []
StopCheck ==
    /\ ss_pc = "check"
    /\ IF ShouldDrain(ss_results)
       THEN /\ ss_awaited' = ss_awaited + Len(ss_results)
            /\ ss_results' = <<>>
       ELSE UNCHANGED <<ss_awaited, ss_results>>
    /\ ss_i' = ss_i + 1
    /\ ss_pc' = "loop"
    /\ UNCHANGED <<ss_keys, ss_dispatched>>
    /\ UNCHANGED <<statsVars, readVars, timeVars, englishVars, routeFlatVars,
                   stopTimeVars, routeTimeVars>>

\* block_for_results(results) after the loop, and return
StopFinalDrain ==
    /\ ss_pc = "loop"
    /\ ss_i > Len(ss_keys)
    /\ ss_awaited' = ss_awaited + Len(ss_results)
    /\ ss_pc' = "returned"
    /\ UNCHANGED <<ss_keys, ss_i, ss_results, ss_dispatched>>
    /\ UNCHANGED <<statsVars, readVars, timeVars, englishVars, routeFlatVars,
                   stopTimeVars, routeTimeVars>>

\* ---------------------------------------------- ingest_stop_stats_by_time
\* raised by all_stop_details[0] on an empty list
IndexError == "IndexError"

\* the row of the stop table for a stop
StopDetail(stop_id) == [stop_id |-> stop_id, stop_name |-> "name"]

\* mutant: the detail join without the length check
StopTimeBody_Unchecked(st, stop_id, all_stop_details) ==
    LET flushed == IF st.count = BATCH_SIZE
                   THEN [st EXCEPT !.executed = Append(@, st.batch),
                                   !.batch = <<>>, !.count = 0]
                   ELSE st
    IN  IF Len(all_stop_details) = 0
        THEN [flushed EXCEPT !.raised = IndexError]
        ELSE [flushed EXCEPT
                !.batch = Append(@, [stop_id |-> stop_id,
                                     stop_details |-> all_stop_details[1]]),
                !.count = @ + 1]

\* one iteration of the loop of ingest_stop_stats_by_time on stop_id, whose
\* detail lookup returned all_stop_details: st is [batch, count, results,
\* executed, raised]
StopTimeBody(st, stop_id, all_stop_details) ==
    LET flushed == IF st.count = BATCH_SIZE
                   THEN [st EXCEPT !.executed = Append(@, st.batch),
                                   !.batch = <<>>, !.count = 0]
                   ELSE st
    IN  IF Len(all_stop_details) = 0 THEN flushed
        ELSE LET added == [flushed EXCEPT
                             !.batch = Append(@, [stop_id |-> stop_id,
                                                  stop_details |-> all_stop_details[1]]),
                             !.count = @ + 1]
             IN  IF Len(added.results) > BATCH_RESULTS_DRAIN
                 THEN [added EXCEPT !.results = <<>>]
                 ELSE added

StopTimeInit ==
    /\ \E n \in 0..MaxTimeStops : st_keys = [k \in 1..n |-> k]
    /\ st_i = 1
    /\ st_rows = <<>>
    /\ st_batch = <<>>
    /\ st_count = 0
    /\ st_results = <<>>
    /\ st_executed = <<>>
    /\ st_pc = "loop"

StopTimeIdle ==
    /\ st_keys = <<>>
    /\ st_i = 1
    /\ st_rows = <<>>
    /\ st_batch = <<>>
    /\ st_count = 0
    /\ st_results = <<>>
    /\ st_executed = <<>>
    /\ st_pc = "idle"

\* one iteration of `for stop_id, stats in stop_stats.items()`; the rows of
\* stop_results[stop_id].result().all() are the lookup's answer
StopTimeIterate ==
    /\ st_pc = "loop"
    /\ st_i <= Len(st_keys)
    /\ \E all_stop_details \in {<<>>, <<StopDetail(st_keys[st_i])>>} :
          /\ all_stop_details = <<>> =>
                Cardinality({k \in DOMAIN st_rows : st_rows[k] = <<>>}) < MaxEmpty
          /\ LET st == StopTimeBody([batch |-> st_batch, count |-> st_count,
                                     results |-> st_results,
                                     executed |-> st_executed, raised |-> None],
                                    st_keys[st_i], all_stop_details)
             IN  /\ st_batch' = st.batch
                 /\ st_count' = st.count
                 /\ st_results' = st.results
                 /\ st_executed' = st.executed
                 /\ st_pc' = IF st.raised = None THEN "loop" ELSE "raised"
          /\ st_rows' = Append(st_rows, all_stop_details)
    /\ st_i' = st_i + 1
    /\ UNCHANGED st_keys
    /\ UNCHANGED <<statsVars, readVars, timeVars, englishVars, routeFlatVars,
                   stopFlatVars, routeTimeVars>>

\* results.append(session.execute_async(batch)); block_for_results(results)
StopTimeFinish ==
    /\ st_pc = "loop"
    /\ st_i > Len(st_keys)
    /\ st_results' = Append(st_results, st_batch)
    /\ st_executed' = Append(st_executed, st_batch)
    /\ st_pc' = "returned"
    /\ UNCHANGED <<st_keys, st_i, st_rows, st_batch, st_count>>
    /\ UNCHANGED <<statsVars, readVars, timeVars, englishVars, routeFlatVars,
                   stopFlatVars, routeTimeVars>>

\* --------------------------------------------- ingest_route_stats_by_time
\* the row of the route table for a RouteKey
RouteDetail(key) == [route_key |-> key, route_short_name |-> "name"]

\* mutant: the flush test lets one more write into the batch
RouteTimeBody_LateFlush(st, key, rows) ==
    LET flushed == IF st.count > ROUTE_BATCH_SIZE
                   THEN [st EXCEPT !.results = Append(@, st.batch),
                                   !.batch = <<>>, !.count = 0]
                   ELSE st
    IN  IF Len(rows) = 0
        THEN [flushed EXCEPT !.raised = IndexError]
        ELSE [flushed EXCEPT
                !.batch = Append(@, [route_key |-> key, route_details |-> rows[1]]),
                !.count = @ + 1]

\* one iteration of the loop of ingest_route_stats_by_time on the RouteKey
\* key, whose detail lookup returned rows: st is [batch, count, results,
\* raised]; result()[0] raises IndexError on a lookup without a row
RouteTimeBody(st, key, rows) ==
    LET flushed == IF st.count = ROUTE_BATCH_SIZE
                   THEN [st EXCEPT !.results = Append(@, st.batch),
                                   !.batch = <<>>, !.count = 0]
                   ELSE st
    IN  IF Len(rows) = 0
        THEN [flushed EXCEPT !.raised = IndexError]
        ELSE [flushed EXCEPT
                !.batch = Append(@, [route_key |-> key, route_details |-> rows[1]]),
                !.count = @ + 1]

RouteTimeInit ==
    /\ \E n \in 0..MaxRouteTimeKeys : rt_keys = [k \in 1..n |-> k]
    /\ rt_i = 1
    /\ rt_rows = <<>>
    /\ rt_batch = <<>>
    /\ rt_count = 0
    /\ rt_results = <<>>
    /\ rt_pc = "loop"

RouteTimeIdle ==
    /\ rt_keys = <<>>
    /\ rt_i = 1
    /\ rt_rows = <<>>
    /\ rt_batch = <<>>
    /\ rt_count = 0
    /\ rt_results = <<>>
    /\ rt_pc = "idle"

\* one iteration of `for route_key, stats, in route_stats.items()`; the
\* rows of route_results[route_key].result() are the lookup's answer
RouteTimeIterate ==
    /\ rt_pc = "loop"
    /\ rt_i <= Len(rt_keys)
    /\ \E rows \in {<<>>, <<RouteDetail(rt_keys[rt_i])>>} :
          /\ LET st == RouteTimeBody([batch |-> rt_batch, count |-> rt_count,
                                      results |-> rt_results, raised |-> None],
                                     rt_keys[rt_i], rows)
             IN  /\ rt_batch' = st.batch
                 /\ rt_count' = st.count
                 /\ rt_results' = st.results
                 /\ rt_pc' = IF st.raised = None THEN "loop" ELSE "raised"
          /\ rt_rows' = Append(rt_rows, rows)
    /\ rt_i' = rt_i + 1
    /\ UNCHANGED rt_keys
    /\ UNCHANGED <<statsVars, readVars, timeVars, englishVars, routeFlatVars,
                   stopFlatVars, stopTimeVars>>

\* results.append(session.execute_async(batch)); return results
RouteTimeFinish ==
    /\ rt_pc = "loop"
    /\ rt_i > Len(rt_keys)
    /\ rt_results' = Append(rt_results, rt_batch)
    /\ rt_pc' = "returned"
    /\ UNCHANGED <<rt_keys, rt_i, rt_rows, rt_batch, rt_count>>
    /\ UNCHANGED <<statsVars, readVars, timeVars, englishVars, routeFlatVars,
                   stopFlatVars, stopTimeVars>>

WriterIdle == RouteFlatIdle /\ StopFlatIdle /\ StopTimeIdle /\ RouteTimeIdle

\* --------------------------------------------------------- specifications
InitStats == StatsInit /\ ReadIdle /\ TimeIdle /\ EnglishIdle /\ WriterIdle
NextStats == GetStats
SpecStats == InitStats /\ [][NextStats]_vars

InitRead == ReadInit /\ StatsIdle /\ TimeIdle /\ EnglishIdle /\ WriterIdle
NextRead == ReadTrip \/ ReadReturn
SpecRead == InitRead /\ [][NextRead]_vars

InitTime == TimeInit /\ StatsIdle /\ ReadIdle /\ EnglishIdle /\ WriterIdle
NextTime == TimeQuery \/ TimeIterate \/ TimeReturn
SpecTime == InitTime /\ [][NextTime]_vars

InitEnglish == EnglishInit /\ StatsIdle /\ ReadIdle /\ TimeIdle /\ WriterIdle
NextEnglish == GetEnglish
SpecEnglish == InitEnglish /\ [][NextEnglish]_vars

OthersIdle == StatsIdle /\ ReadIdle /\ TimeIdle /\ EnglishIdle

InitRouteFlat == RouteFlatInit /\ StopFlatIdle /\ StopTimeIdle /\ RouteTimeIdle /\ OthersIdle
NextRouteFlat == RouteDispatch \/ RouteReturn
SpecRouteFlat == InitRouteFlat /\ [][NextRouteFlat]_vars

InitStopFlat == StopFlatInit /\ RouteFlatIdle /\ StopTimeIdle /\ RouteTimeIdle /\ OthersIdle
NextStopFlat == StopDispatch \/ StopCheck \/ StopFinalDrain
SpecStopFlat == InitStopFlat /\ [][NextStopFlat]_vars

InitStopTime == StopTimeInit /\ RouteFlatIdle /\ StopFlatIdle /\ RouteTimeIdle /\ OthersIdle
NextStopTime == StopTimeIterate \/ StopTimeFinish
SpecStopTime == InitStopTime /\ [][NextStopTime]_vars

InitRouteTime == RouteTimeInit /\ RouteFlatIdle /\ StopFlatIdle /\ StopTimeIdle /\ OthersIdle
NextRouteTime == RouteTimeIterate \/ RouteTimeFinish
SpecRouteTime == InitRouteTime /\ [][NextRouteTime]_vars

\* ------------------------------------------------------------------ claims
MinOf(ds) == CHOOSE m \in {ds[i] : i \in DOMAIN ds} : \A i \in DOMAIN ds : m <= ds[i]
MaxOf(ds) == CHOOSE m \in {ds[i] : i \in DOMAIN ds} : \A i \in DOMAIN ds : m >= ds[i]

\* C3 (as stated): on the list [-310, -5, 0, 301, 50] get_stats yields
\* mean = -1, median = 0, count = 5, very_early = 1 and very_late = 1.
C3_Original ==
    (gs_pc = "returned" /\ delays = ScenarioDelays) =>
        /\ stats.mean = -1
        /\ stats.median = 0
        /\ stats.count = 5
        /\ stats.very_early = 1
        /\ stats.very_late = 1

\* C3 (amended): on the list [-310, -5, 0, 301, 50], whose sum is 36,
\* get_stats yields mean = round(7.2) = 7, median = 0, count = 5,
\* very_early = 1 and very_late = 1.
C3_Scenario ==
    (gs_pc = "returned" /\ delays = ScenarioDelays) =>
        /\ stats.mean = 7
        /\ stats.median = 0
        /\ stats.count = 5
        /\ stats.very_early = 1
        /\ stats.very_late = 1

C3_Witness == gs_pc = "returned" /\ delays = ScenarioDelays

\* C4: for every non-empty delay list, get_stats returns count = the list
\* length, very_early + very_late <= count, the rounded mean and the rounded
\* median within [min(delays), max(delays)], very_early = the number of
\* delays <= -300 and very_late = the number of delays >= 300.
C4_StatsBounds ==
    gs_pc = "returned" =>
        /\ stats.count = Len(delays)
        /\ stats.very_early + stats.very_late <= stats.count
        /\ MinOf(delays) <= stats.mean /\ stats.mean <= MaxOf(delays)
        /\ MinOf(delays) <= stats.median /\ stats.median <= MaxOf(delays)
        /\ stats.very_early = Cardinality({i \in DOMAIN delays : delays[i] <= -300})
        /\ stats.very_late = Cardinality({i \in DOMAIN delays : delays[i] >= 300})

\* a two-element list with one very early and one very late delay
C4_Witness ==
    /\ gs_pc = "returned"
    /\ Len(delays) = 2
    /\ stats.very_early = 1
    /\ stats.very_late = 1
    /\ stats.mean = 0

\* ---- read_data
\* the records read so far
Processed == SubSeq(data, 1, pos - 1)

\* a trip record with every key get_trip_info reads
HasAllTripKeys(td) ==
    /\ {"id", "tripUpdate"} \subseteq DOMAIN td
    /\ {"trip", "vehicle", "stopTimeUpdate"} \subseteq DOMAIN td.tripUpdate
    /\ {"startDate", "scheduleRelationship", "routeId", "directionId"}
          \subseteq DOMAIN td.tripUpdate.trip
    /\ "label" \in DOMAIN td.tripUpdate.vehicle

\* a trip record whose only fault is the missing tripUpdate.trip.routeId
LacksRouteId(td) ==
    /\ {"id", "tripUpdate"} \subseteq DOMAIN td
    /\ "trip" \in DOMAIN td.tripUpdate
    /\ "routeId" \notin DOMAIN td.tripUpdate.trip

\* a stop-time-update with every key get_stop_info reads
Parseable(stop) ==
    /\ {"stopSequence", "arrival", "departure", "stopId"} \subseteq DOMAIN stop
    /\ {"delay", "time"} \subseteq DOMAIN stop.arrival
    /\ "delay" \in DOMAIN stop.departure

StusOf(td) == td.tripUpdate.stopTimeUpdate
KeyOf(td) == <<td.tripUpdate.trip.routeId, td.tripUpdate.trip.directionId>>
Bucket(d, k) == IF k \in DOMAIN d THEN d[k] ELSE <<>>
AllRouteKeys == RouteKeys \cup {<<"", 0>>}
StopIds == {"S1", "S2"}

\* C1 (as stated): after the run the length of each RouteKey bucket equals
\* the number of trip records with all required keys, that key and at least
\* one stop-time-update.
C1_Original ==
    rd_pc = "returned" =>
        \A key \in AllRouteKeys :
            Len(Bucket(routes, key)) =
                Cardinality({i \in DOMAIN data :
                    /\ HasAllTripKeys(data[i])
                    /\ KeyOf(data[i]) = key
                    /\ Len(StusOf(data[i])) >= 1})

\* the first-stop arrival delays, in file order, of the records that have
\* all required keys, the key `key` and a parseable first stop-time-update
FirstDelays(recs, key) ==
    LET sel == SelectSeq(recs, LAMBDA td :
                   /\ HasAllTripKeys(td)
                   /\ KeyOf(td) = key
                   /\ Len(StusOf(td)) >= 1
                   /\ Parseable(StusOf(td)[1]))
    IN  [i \in 1..Len(sel) |-> StusOf(sel[i])[1].arrival.delay]

\* C1 (amended): every trip record that has all required keys and whose
\* first stop-time-update is parseable appends exactly one observation, the
\* arrival delay of that first stop-time-update, to its RouteKey bucket, and
\* no other record appends to a route bucket: each bucket is the list of
\* those delays in file order, and a key with no such record has no bucket.
C1_FirstStopOnly ==
    /\ \A key \in AllRouteKeys :
          Bucket(routes, key) = FirstDelays(Processed, key)
    /\ DOMAIN routes =
          {key \in AllRouteKeys : FirstDelays(Processed, key) # <<>>}

\* a finished run over a trip with two parseable stop-time-updates of
\* different delay and a trip whose first stop-time-update is not parseable
C1_Witness ==
    /\ rd_pc = "returned"
    /\ \E i \in DOMAIN data :
          /\ HasAllTripKeys(data[i])
          /\ Len(StusOf(data[i])) = 2
          /\ Parseable(StusOf(data[i])[1])
          /\ Parseable(StusOf(data[i])[2])
          /\ StusOf(data[i])[1].arrival.delay # StusOf(data[i])[2].arrival.delay
          /\ Len(Bucket(routes, KeyOf(data[i]))) = 1
    /\ \E j \in DOMAIN data :
          /\ HasAllTripKeys(data[j])
          /\ Len(StusOf(data[j])) >= 1
          /\ ~Parseable(StusOf(data[j])[1])

\* C5 (as stated): every parseable stop-time-update of every trip record
\* with all required keys has its arrival delay appended to the bucket of
\* its stop_id, whether or not the trip's first stop-time-update is
\* parseable: after the run each stop bucket holds one delay per such
\* stop-time-update.
C5_EveryParseableStop ==
    rd_pc = "returned" =>
        \A sid \in StopIds :
            Len(Bucket(stops, sid)) =
                Cardinality({p \in (DOMAIN data) \X (1..MaxStus) :
                    /\ HasAllTripKeys(data[p[1]])
                    /\ p[2] <= Len(StusOf(data[p[1]]))
                    /\ Parseable(StusOf(data[p[1]])[p[2]])
                    /\ StusOf(data[p[1]])[p[2]].stopId = sid})

\* read_data run from the start over the records recs: <<routes, stops>>
RECURSIVE ReadAll(_, _)
ReadAll(st, recs) ==
    IF recs = <<>> THEN <<st.routes, st.stops>>
    ELSE ReadAll(LoopBody(st, Head(recs)), Tail(recs))

\* C7: a trip record without tripUpdate.trip.routeId is skipped without
\* raising: the route and stop buckets are those of a run over the input
\* with these records taken out (so such a record appends to no bucket).
C7_SkipsMissingRouteId ==
    /\ rd_pc \in {"loop", "returned"}
    /\ <<routes, stops>> =
          ReadAll([routes |-> EmptyDict, stops |-> EmptyDict,
                   stop_updates |-> {}, route_key |-> <<>>],
                  SelectSeq(Processed, LAMBDA td : ~LacksRouteId(td)))

\* a finished run over a record without routeId that carries a parseable
\* stop-time-update, next to a record that did contribute
C7_Witness ==
    /\ rd_pc = "returned"
    /\ \E i \in DOMAIN data :
          /\ LacksRouteId(data[i])
          /\ Len(StusOf(data[i])) >= 1
          /\ Parseable(StusOf(data[i])[1])
    /\ DOMAIN routes # {}
    /\ DOMAIN stops # {}

\* ---- get_last_update_time
\* C2 (as stated): get_last_update_time returns today's timestamp when the
\* table holds a row for both today and yesterday, returns yesterday's
\* timestamp when only a yesterday row exists, and returns None without
\* raising when neither row exists.
C2_TodayElseYesterday ==
    ut_pc \in {"returned", "raised"} =>
        /\ (today_rows # <<>> /\ yesterday_rows # <<>>) =>
              (ut_pc = "returned" /\ update_time = today_rows[1].update_time)
        /\ (today_rows = <<>> /\ yesterday_rows # <<>>) =>
              (ut_pc = "returned" /\ update_time = yesterday_rows[1].update_time)
        /\ (today_rows = <<>> /\ yesterday_rows = <<>>) =>
              (ut_pc = "returned" /\ update_time = None)

\* ---- get_english
EnIndexes(ts) == {i \in DOMAIN ts : ts[i].language = "en"}
EnTexts(ts) == {ts[i].text : i \in EnIndexes(ts)}
Reorderings(ts) ==
    {[i \in DOMAIN ts |-> ts[f[i]]] :
        f \in {g \in [DOMAIN ts -> DOMAIN ts] :
                  \A i, j \in DOMAIN ts : g[i] = g[j] => i = j}}

\* C6 (as stated): get_english returns '' when the list has no 'en' entry,
\* otherwise the text of the 'en' entry, and the result is the same for
\* every permutation of the list.
C6_Original ==
    ge_pc = "returned" =>
        /\ EnIndexes(translations) = {} => ge_result = ""
        /\ EnIndexes(translations) # {} => ge_result \in EnTexts(translations)
        /\ \A p \in Reorderings(translations) : get_english(p) = ge_result

\* C6 (amended): get_english returns '' when the list has no 'en' entry,
\* otherwise the text of the first 'en' entry in list order; the result is
\* the same for every permutation of a list whose 'en' entries all carry
\* the same text.
C6_FirstEnglish ==
    ge_pc = "returned" =>
        /\ EnIndexes(translations) = {} => ge_result = ""
        /\ EnIndexes(translations) # {} =>
              \E i \in EnIndexes(translations) :
                  /\ \A j \in EnIndexes(translations) : i <= j
                  /\ ge_result = translations[i].text
        /\ Cardinality(EnTexts(translations)) <= 1 =>
              \A p \in Reorderings(translations) : get_english(p) = ge_result

\* a call on a list of three entries whose 'en' entry is not the first
C6_Witness ==
    /\ ge_pc = "returned"
    /\ Len(translations) = 3
    /\ translations[1].language = "fr"
    /\ Cardinality(EnIndexes(translations)) = 2
    /\ Cardinality(EnTexts(translations)) = 2
    /\ ge_result = translations[2].text

\* ---- ingest_route_stats_by_route
\* the writes dispatched and not yet awaited: the function waits on none
RouteInFlight == Len(rr_results)

\* C8 (as stated): one write per RouteKey, and the number of writes
\* dispatched and not yet awaited never exceeds a fixed bound, whatever the
\* number of RouteKeys; the bound is taken as large as the drain test of the
\* stop writer allows (STOP_DRAIN + 1).
C8_Original ==
    /\ RouteInFlight <= STOP_DRAIN + 1
    /\ rr_pc = "returned" =>
          \A k \in DOMAIN rr_keys :
              \E j \in DOMAIN rr_results : rr_results[j].route_key = rr_keys[k]

\* C8 (amended): ingest_route_stats_by_route issues exactly one write per
\* RouteKey and waits on none of them: the number of writes dispatched and
\* not yet awaited equals the number of RouteKeys iterated so far, and on
\* return equals the number of RouteKeys.
C8_OneWriteNoCap ==
    /\ RouteInFlight = rr_i - 1
    /\ \A k \in 1..(rr_i - 1) :
          Cardinality({j \in DOMAIN rr_results :
                          rr_results[j] = RouteStatement(rr_keys[k])}) = 1
    /\ rr_pc = "returned" => RouteInFlight = Len(rr_keys)

\* the function has returned with more writes in flight than any drain
\* threshold of the writers
C8_Witness ==
    /\ rr_pc = "returned"
    /\ RouteInFlight > STOP_DRAIN + 1

\* ---- ingest_stop_stats_by_stop
\* the writes dispatched and not yet awaited
StopInFlight == ss_dispatched - ss_awaited

\* C9 (as stated): at every point of the loop no more than 50 writes are
\* dispatched and not yet awaited.
C9_Original == StopInFlight <= 50

\* C9 (amended): at every point of the loop no more than 51 writes are
\* dispatched and not yet awaited: the list is drained once it holds more
\* than 50, so it holds at most 50 at the head of an iteration and 51
\* between the dispatch and the drain test; after the return none is left.
C9_CapIs51 ==
    /\ StopInFlight <= 51
    /\ ss_pc = "loop" => StopInFlight <= 50
    /\ ss_pc \in {"loop", "check"} => StopInFlight = Len(ss_results)
    /\ ss_pc = "returned" => StopInFlight = 0

\* the 51st write has been dispatched and the drain test is next
C9_Witness ==
    /\ ss_pc = "check"
    /\ StopInFlight = 51
    /\ ss_awaited = 51

\* ---- ingest_stop_stats_by_time
\* how often stop_id is written in a batch whose execution has completed
TimesWritten(stop_id) ==
    Cardinality({p \in (DOMAIN st_executed) \X (1..BATCH_SIZE) :
                    /\ p[2] <= Len(st_executed[p[1]])
                    /\ st_executed[p[1]][p[2]].stop_id = stop_id})

\* C10: a stop whose detail lookup returned zero rows is skipped without
\* raising and is written in no batch; every stop whose detail lookup
\* returned at least one row is written exactly once, in a batch that is
\* executed before the function returns.
C10_SkipEmptyDetail ==
    /\ st_pc # "raised"
    /\ st_pc = "returned" =>
          \A k \in DOMAIN st_keys :
              TimesWritten(st_keys[k]) = IF Len(st_rows[k]) = 0 THEN 0 ELSE 1

\* a finished run with one stop skipped and a full batch executed in the loop
C10_Witness ==
    /\ st_pc = "returned"
    /\ Cardinality({k \in DOMAIN st_rows : st_rows[k] = <<>>}) = 1
    /\ Len(st_executed) = 2
    /\ Len(st_executed[1]) = BATCH_SIZE
    /\ Len(st_executed[2]) = 1

\* ---- ingest_route_stats_by_time
\* every detail lookup made so far returned at least one row
AllRouteDetailsFound == \A k \in DOMAIN rt_rows : Len(rt_rows[k]) >= 1

\* how many dispatched batches hold a write for the RouteKey key
BatchesHolding(key) ==
    Cardinality({b \in DOMAIN rt_results :
                    \E j \in DOMAIN rt_results[b] :
                        rt_results[b][j].route_key = key})

\* how many writes for the RouteKey key the dispatched batches hold
WritesFor(key) ==
    Cardinality({p \in (DOMAIN rt_results) \X (1..(MaxRouteTimeKeys + 1)) :
                    /\ p[2] <= Len(rt_results[p[1]])
                    /\ rt_results[p[1]][p[2]].route_key = key})

\* batches of fixed size 30: each dispatched batch holds at most 30 writes,
\* each but the last exactly 30, each RouteKey is in exactly one batch
PartitionedBy30 ==
    /\ \A b \in DOMAIN rt_results : Len(rt_results[b]) <= 30
    /\ \A b \in DOMAIN rt_results :
          b < Len(rt_results) => Len(rt_results[b]) = 30
    /\ \A k \in DOMAIN rt_keys :
          BatchesHolding(rt_keys[k]) = 1 /\ WritesFor(rt_keys[k]) = 1

\* C11 (as stated): when every detail lookup has at least one row, the
\* RouteKeys are partitioned into batches of fixed size 30 (at most 30 per
\* dispatched batch, exactly 30 in each but the last, each RouteKey in
\* exactly one dispatched batch) and no empty batch is dispatched.
C11_Original ==
    (rt_pc = "returned" /\ AllRouteDetailsFound) =>
        /\ PartitionedBy30
        /\ \A b \in DOMAIN rt_results : Len(rt_results[b]) >= 1

\* C11 (amended): when every detail lookup has at least one row, the
\* RouteKeys are partitioned into batches of fixed size 30 (at most 30 per
\* dispatched batch, exactly 30 in each but the last, each RouteKey in
\* exactly one dispatched batch); no empty batch is dispatched when the
\* statistics mapping is not empty, and for an empty mapping exactly one
\* batch, an empty one, is dispatched.
C11_BatchesOf30 ==
    /\ rt_pc = "loop" => \A b \in DOMAIN rt_results : Len(rt_results[b]) = 30
    /\ (rt_pc = "returned" /\ AllRouteDetailsFound) =>
          /\ PartitionedBy30
          /\ Len(rt_keys) >= 1 =>
                \A b \in DOMAIN rt_results : Len(rt_results[b]) >= 1
          /\ Len(rt_keys) = 0 => rt_results = << <<>> >>

\* a finished run over 61 RouteKeys: two full batches and a last one of 1
C11_Witness ==
    /\ rt_pc = "returned"
    /\ AllRouteDetailsFound
    /\ Len(rt_keys) = 61
    /\ Len(rt_results) = 3
    /\ Len(rt_results[1]) = 30
    /\ Len(rt_results[2]) = 30
    /\ Len(rt_results[3]) = 1

====
